---- MODULE Spec2Model ----
(***************************************************************************)
(* Model of the `mine` command of createx (src/src/createx/__main__.py).   *)
(*                                                                         *)
(* The command validates its options and builds a list of closures         *)
(* (lines 171-263), draws an 11-byte random salt (line 272) and then walks *)
(* salts until a derived address meets the conditions or the iteration     *)
(* budget is spent (lines 274-296).                                        *)
(*                                                                         *)
(* Optional values are modelled as sequences: None is <<>>, a present      *)
(* value v is <<v>>.  Python str and bytes are sequences of one-character  *)
(* strings and of integers 0..255.                                         *)
(***************************************************************************)
EXTENDS Integers, Sequences, FiniteSets, TLC

VARIABLES
    leading_zeros,    \* option --leading-zeros  (Optional int)
    starts_with,      \* option --starts-with    (Optional str)
    trailing_zeros,   \* option --trailing-zeros (Optional int)
    ends_with,        \* option --ends-with      (Optional str)
    case_sensitive,   \* option --case-sensitive (bool)
    max_iterations,   \* option --max-iterations (int)
    pc,               \* position in mine: start, built, searching, found, exhausted, error, evaluated
    built,            \* result of the validation block: conditions, pattern_size, warnings, error
    salt,             \* local `salt` (Optional bytes)
    iterations,       \* local `iterations`
    address,          \* local `address` (Optional str), the last derived candidate
    met,              \* result of the last conditions_met(address) call (Optional bool)
    oracle,           \* compute_address as observed so far: salt -> address
    derivations,      \* number of compute_address calls made
    output            \* what the command printed or raised at the end (Optional record)

vars == <<leading_zeros, starts_with, trailing_zeros, ends_with, case_sensitive,
          max_iterations, pc, built, salt, iterations, address, met, oracle,
          derivations, output>>

options == <<leading_zeros, starts_with, trailing_zeros, ends_with, case_sensitive,
             max_iterations>>

----------------------------------------------------------------------------
(* Bounds and program constants *)

MaxIter == 2          \* largest --max-iterations value explored
ChunkLen == 2         \* number of hex characters that vary at each end of an address

AddressBytes == 20    \* a canonical address is 20 bytes
SaltBytes == 11       \* random.randbytes(11) and [:11]
WarnAbove == 8        \* "greater than 8 will likely not converge"

None == <<>>
Some(v) == <<v>>
IsSome(o) == o # <<>>
Val(o) == o[1]

Min(a, b) == IF a < b THEN a ELSE b
Max(a, b) == IF a > b THEN a ELSE b

----------------------------------------------------------------------------
(* Python string and bytes primitives *)

HexDigits == <<"0","1","2","3","4","5","6","7","8","9","a","b","c","d","e","f">>

LowerChar(c) ==
    CASE c = "A" -> "a" [] c = "B" -> "b" [] c = "C" -> "c"
      [] c = "D" -> "d" [] c = "E" -> "e" [] c = "F" -> "f"
      [] OTHER -> c

\* str.lower()
Lower(s) == [i \in 1..Len(s) |-> LowerChar(s[i])]

\* the character set accepted by the pattern checks
ValidHexChars ==
    {"0","1","2","3","4","5","6","7","8","9",
     "A","a","B","b","C","c","D","d","E","e","F","f"}

\* set(pattern) <= set("0123456789AaBbCcDdEeFf")
IsValidHex(s) == {s[i] : i \in 1..Len(s)} \subseteq ValidHexChars

HexVal(c) ==
    CASE c = "0" -> 0 [] c = "1" -> 1 [] c = "2" -> 2 [] c = "3" -> 3
      [] c = "4" -> 4 [] c = "5" -> 5 [] c = "6" -> 6 [] c = "7" -> 7
      [] c = "8" -> 8 [] c = "9" -> 9
      [] c \in {"a", "A"} -> 10 [] c \in {"b", "B"} -> 11
      [] c \in {"c", "C"} -> 12 [] c \in {"d", "D"} -> 13
      [] c \in {"e", "E"} -> 14 [] c \in {"f", "F"} -> 15

\* s[:stop]
SliceTo(s, stop) ==
    LET n == IF stop >= 0 THEN Min(stop, Len(s)) ELSE Max(Len(s) + stop, 0)
    IN  SubSeq(s, 1, n)

\* s[start:]
SliceFrom(s, start) ==
    LET k == IF start >= 0 THEN Min(start, Len(s)) ELSE Max(Len(s) + start, 0)
    IN  SubSeq(s, k + 1, Len(s))

\* str.replace("0x", ""): every occurrence of "0x" is removed.  Two occurrences
\* cannot overlap (the second character of one is not "0"), so a character is
\* removed exactly when it is the "0" or the "x" of an occurrence.
InOccurrence(s, i) ==
    \/ s[i] = "0" /\ i < Len(s) /\ s[i + 1] = "x"
    \/ s[i] = "x" /\ i > 1 /\ s[i - 1] = "0"

Strip0x(s) ==
    LET marked == [i \in 1..Len(s) |-> <<s[i], InOccurrence(s, i)>>]
        kept == SelectSeq(marked, LAMBDA p : ~ p[2])
    IN  [i \in 1..Len(kept) |-> kept[i][1]]

\* eth_utils.to_canonical_address: "0x" + 40 hex characters -> 20 bytes
HexToBytes(h) ==
    [i \in 1..(Len(h) \div 2) |-> 16 * HexVal(h[2*i - 1]) + HexVal(h[2*i])]

to_canonical_address(a) == HexToBytes(Strip0x(a))

\* bytes.hex()
Hex(b) ==
    [i \in 1..(2 * Len(b)) |->
        IF i % 2 = 1 THEN HexDigits[(b[(i + 1) \div 2] \div 16) + 1]
                     ELSE HexDigits[(b[i \div 2] % 16) + 1]]

\* max(bytes) of a non-empty bytes value
MaxByte(b) == CHOOSE m \in {b[i] : i \in 1..Len(b)} : \A i \in 1..Len(b) : b[i] <= m

----------------------------------------------------------------------------
(* The validation block of mine, lines 171-263.  It threads a record        *)
(*   conditions   : the list `conditions`, as the names of the closures     *)
(*   pattern_size : the function-level variable both walrus expressions set *)
(*   warnings     : the warnings.warn calls made                            *)
(*   unraised     : exception objects constructed and dropped               *)
(*   error        : the exception raised, if any (ends the command)         *)

EmptyBuild ==
    [conditions |-> <<>>, pattern_size |-> None, warnings |-> <<>>,
     unraised |-> <<>>, error |-> None]

\* Python truthiness of Optional[int] and Optional[str]
TruthyInt(o) == IsSome(o) /\ Val(o) # 0
TruthyStr(o) == IsSome(o) /\ Len(Val(o)) > 0

\* lines 171-179: click.UsageError(...) is constructed, not raised
ExclusivityBlock(b, lz, sw, tz, ew) ==
    IF TruthyInt(lz) /\ TruthyStr(sw)
    THEN [b EXCEPT !.unraised = Append(@, "UsageError: leading-zeros and starts-with")]
    ELSE IF TruthyInt(tz) /\ TruthyStr(ew)
    THEN [b EXCEPT !.unraised = Append(@, "UsageError: trailing-zeros and ends-with")]
    ELSE b

\* lines 184 and 221: the zero-count is rejected
ZeroCountRejected(n) == n <= 0

\* lines 190, 205, 227, 242: the warning threshold
WarnsAbove(n) == n > WarnAbove

\* variant of PatternRejected: only the first character is looked at
PatternRejectedFirstOnly(p) == Len(p) > 0 /\ p[1] \notin ValidHexChars

\* lines 199 and 236: the pattern is rejected
PatternRejected(p) == ~ IsValidHex(p)

\* lines 183-196
LeadingZerosBlock(b, lz) ==
    IF IsSome(b.error) \/ ~ IsSome(lz) THEN b
    ELSE IF ZeroCountRejected(Val(lz))
    THEN [b EXCEPT !.error = Some("BadOptionUsage: leading_zeros: Cannot be less than 1")]
    ELSE [b EXCEPT
            !.warnings = IF WarnsAbove(Val(lz)) THEN Append(@, "leading-zeros") ELSE @,
            !.conditions = Append(@, "has_enough_leading_zeros")]

\* lines 198-218
StartsWithBlock(b, sw) ==
    IF IsSome(b.error) \/ ~ IsSome(sw) THEN b
    ELSE IF PatternRejected(Val(sw))
    THEN [b EXCEPT !.error = Some("BadOptionUsage: starts_with: Must be valid hex")]
    ELSE [b EXCEPT
            !.pattern_size = Some(Len(Val(sw))),
            !.warnings = IF WarnsAbove(Len(Val(sw))) THEN Append(@, "starts-with") ELSE @,
            !.conditions = Append(@, "starts_with_pattern")]

\* lines 220-233
TrailingZerosBlock(b, tz) ==
    IF IsSome(b.error) \/ ~ IsSome(tz) THEN b
    ELSE IF ZeroCountRejected(Val(tz))
    THEN [b EXCEPT !.error = Some("BadOptionUsage: trailing_zeros: Cannot be less than 1")]
    ELSE [b EXCEPT
            !.warnings = IF WarnsAbove(Val(tz)) THEN Append(@, "trailing-zeros") ELSE @,
            !.conditions = Append(@, "has_enough_trailing_zeros")]

\* lines 235-255
EndsWithBlock(b, ew) ==
    IF IsSome(b.error) \/ ~ IsSome(ew) THEN b
    ELSE IF PatternRejected(Val(ew))
    THEN [b EXCEPT !.error = Some("BadOptionUsage: ends_with: Must be valid hex")]
    ELSE [b EXCEPT
            !.pattern_size = Some(Len(Val(ew))),
            !.warnings = IF WarnsAbove(Len(Val(ew))) THEN Append(@, "ends-with") ELSE @,
            !.conditions = Append(@, "ends_with_pattern")]

\* lines 257-260
NoConditionsBlock(b) ==
    IF IsSome(b.error) THEN b
    ELSE IF b.conditions = <<>>
    THEN [b EXCEPT !.error = Some("UsageError: Must use one of")]
    ELSE b

\* lines 171-260 in order
BuildConditions(lz, sw, tz, ew) ==
    NoConditionsBlock(
      EndsWithBlock(
        TrailingZerosBlock(
          StartsWithBlock(
            LeadingZerosBlock(
              ExclusivityBlock(EmptyBuild, lz, sw, tz, ew),
              lz),
            sw),
          tz),
        ew))

----------------------------------------------------------------------------
(* The closures.  Each reads the variables of mine it captured; env is     *)
(* the record of those variables as they are when the closure is called.   *)

Env(lz, sw, tz, ew, cs, b) ==
    [leading_zeros |-> lz, starts_with |-> sw, trailing_zeros |-> tz,
     ends_with |-> ew, case_sensitive |-> cs, pattern_size |-> b.pattern_size,
     conditions |-> b.conditions]

\* variant of has_enough_leading_zeros: min in place of max
MinByte(b) == CHOOSE m \in {b[i] : i \in 1..Len(b)} : \A i \in 1..Len(b) : m <= b[i]
has_enough_leading_zeros_min(a, env) ==
    MinByte(SliceTo(to_canonical_address(a), Val(env.leading_zeros))) = 0

\* lines 193-194
has_enough_leading_zeros(a, env) ==
    MaxByte(SliceTo(to_canonical_address(a), Val(env.leading_zeros))) = 0

\* lines 210-216
starts_with_pattern(a, env) ==
    LET start == SliceTo(Strip0x(a), Val(env.pattern_size))
    IN  IF env.case_sensitive
        THEN start = Val(env.starts_with)
        ELSE Lower(start) = Val(env.starts_with)

\* lines 230-231
has_enough_trailing_zeros(a, env) ==
    MaxByte(SliceFrom(to_canonical_address(a), - Val(env.trailing_zeros))) = 0

\* lines 247-253
ends_with_pattern(a, env) ==
    LET end == SliceFrom(a, - Val(env.pattern_size))
    IN  IF env.case_sensitive
        THEN end = Val(env.ends_with)
        ELSE Lower(end) = Val(env.ends_with)

CallCondition(name, a, env) ==
    CASE name = "has_enough_leading_zeros"  -> has_enough_leading_zeros(a, env)
      [] name = "starts_with_pattern"       -> starts_with_pattern(a, env)
      [] name = "has_enough_trailing_zeros" -> has_enough_trailing_zeros(a, env)
      [] name = "ends_with_pattern"         -> ends_with_pattern(a, env)

\* lines 262-263
conditions_met(a, env) ==
    \A i \in 1..Len(env.conditions) : CallCondition(env.conditions[i], a, env)

----------------------------------------------------------------------------
(* The search loop, lines 272-296 *)

\* variant of BudgetSpent: the comparison is strict
BudgetSpentStrict(its, maxits) == its > maxits

\* line 286
BudgetSpent(its, maxits) == its >= maxits

\* variant of NextSalt: the slice is taken from the other end
NextSaltLow(a) == SliceFrom(to_canonical_address(a), - SaltBytes)

\* line 291
NextSalt(a) == SliceTo(to_canonical_address(a), SaltBytes)

\* variant of FoundMessage: the salt printed is the one computed from a
FoundMessageStale(a, its, s) ==
    [kind |-> "Found", address |-> a, iterations |-> its,
     salt |-> Hex(SliceTo(to_canonical_address(a), SaltBytes))]

\* lines 294-296
FoundMessage(a, its, s) ==
    [kind |-> "Found", address |-> a, iterations |-> its, salt |-> Hex(s)]

\* variant of ExhaustedMessage: the count printed is the number of candidates tried
ExhaustedMessageTried(its) ==
    [kind |-> "UsageError", address |-> <<>>, iterations |-> its + 1, salt |-> <<>>]

\* lines 287-289
ExhaustedMessage(its) ==
    [kind |-> "UsageError", address |-> <<>>, iterations |-> its, salt |-> <<>>]

----------------------------------------------------------------------------
(* Inputs *)

\* "0x" + head + fill... + tail, 2 * AddressBytes hex characters in all
MkAddress(head, fill, tail) ==
    <<"0", "x">> \o head
        \o [i \in 1..(2 * AddressBytes - Len(head) - Len(tail)) |-> fill]
        \o tail

\* characters that vary at the two ends of the sampled addresses; addresses
\* come back checksummed, so letters appear in both cases
AddressChars == {"0", "a", "A"}
FillChars == {"0", "5"}
Chunks == [1..ChunkLen -> AddressChars]

\* addresses the closures are evaluated on
Addresses == {MkAddress(h, f, t) : h \in Chunks, f \in FillChars, t \in Chunks}

\* addresses compute_address may return during a search
WalkHeads == {<<"0","0">>, <<"0","a">>, <<"B","5">>}
WalkTails == {<<"0","0">>, <<"0","a">>, <<"0","A">>}
WalkAddresses == {MkAddress(h, "5", t) : h \in WalkHeads, t \in WalkTails}

\* values random.randbytes(11) may return
SeedSample ==
    {[i \in 1..SaltBytes |-> 0],
     NextSalt(MkAddress(<<"0","a">>, "5", <<"0","0">>))}

WalkLeading  == {None, Some(0), Some(1)}
WalkStarts   == {None, Some(<<>>), Some(<<"0">>), Some(<<"0","z">>)}
WalkTrailing == {None, Some(0), Some(1)}
WalkEnds     == {None, Some(<<>>), Some(<<"a">>), Some(<<"z">>)}
WalkBudgets  == (-1)..MaxIter

MatchCounts == {None, Some(-1), Some(0), Some(1), Some(2), Some(9), Some(21)}
MatchPatterns ==
    {None, Some(<<>>), Some(<<"a">>), Some(<<"A">>), Some(<<"0","a">>),
     Some(<<"0","0","0">>), Some(<<"z">>), Some(<<"a","g">>),
     Some(<<"0","0","0","0","0","0","0","0","0">>)}

NumSet(lz, sw, tz, ew) ==
    Cardinality({i \in 1..4 : IsSome(<<lz, sw, tz, ew>>[i])})

----------------------------------------------------------------------------
(* State machine *)

NoOracle == [s \in {} |-> <<>>]

InitLocals ==
    /\ pc = "start"
    /\ built = EmptyBuild
    /\ salt = None
    /\ iterations = 0
    /\ address = None
    /\ met = None
    /\ oracle = NoOracle
    /\ derivations = 0
    /\ output = None

\* the command is invoked with some options
Init ==
    /\ leading_zeros \in WalkLeading
    /\ starts_with \in WalkStarts
    /\ trailing_zeros \in WalkTrailing
    /\ ends_with \in WalkEnds
    /\ case_sensitive \in BOOLEAN
    /\ max_iterations \in WalkBudgets
    /\ InitLocals

\* the closures are built from at most two options and called on any address
InitMatch ==
    /\ leading_zeros \in MatchCounts
    /\ starts_with \in MatchPatterns
    /\ trailing_zeros \in MatchCounts
    /\ ends_with \in MatchPatterns
    /\ NumSet(leading_zeros, starts_with, trailing_zeros, ends_with) <= 2
    /\ case_sensitive \in BOOLEAN
    /\ max_iterations = 0
    /\ InitLocals

CurrentEnv ==
    Env(leading_zeros, starts_with, trailing_zeros, ends_with, case_sensitive, built)

\* lines 171-263: validate the options and build the conditions
Configure ==
    /\ pc = "start"
    /\ LET b == BuildConditions(leading_zeros, starts_with, trailing_zeros, ends_with)
       IN  /\ built' = b
           /\ IF IsSome(b.error)
              THEN /\ pc' = "error"
                   /\ output' = Some([kind |-> Val(b.error), address |-> <<>>,
                                      iterations |-> 0, salt |-> <<>>])
              ELSE /\ pc' = "built"
                   /\ output' = output
    /\ UNCHANGED <<options, salt, iterations, address, met, oracle, derivations>>

\* lines 272-274: draw the first salt
DrawSalt ==
    /\ pc = "built"
    /\ \E s \in SeedSample : salt' = Some(s)
    /\ iterations' = 0
    /\ pc' = "searching"
    /\ UNCHANGED <<options, built, address, met, oracle, derivations, output>>

\* lines 275-296: one evaluation of the while condition and what follows it
Iterate ==
    /\ pc = "searching"
    /\ \E a \in WalkAddresses :
         /\ Val(salt) \in DOMAIN oracle => a = oracle[Val(salt)]
         /\ oracle' = IF Val(salt) \in DOMAIN oracle THEN oracle
                      ELSE oracle @@ (Val(salt) :> a)
         /\ address' = Some(a)
         /\ derivations' = derivations + 1
         /\ LET m == conditions_met(a, CurrentEnv)
            IN  /\ met' = Some(m)
                /\ IF m
                   THEN /\ pc' = "found"
                        /\ output' = Some(FoundMessage(a, iterations, Val(salt)))
                        /\ UNCHANGED <<salt, iterations>>
                   ELSE IF BudgetSpent(iterations, max_iterations)
                   THEN /\ pc' = "exhausted"
                        /\ output' = Some(ExhaustedMessage(iterations))
                        /\ UNCHANGED <<salt, iterations>>
                   ELSE /\ salt' = Some(NextSalt(a))
                        /\ iterations' = iterations + 1
                        /\ UNCHANGED <<pc, output>>
    /\ UNCHANGED <<options, built>>

\* lines 262-263: conditions_met called on an address
Evaluate ==
    /\ pc = "built"
    /\ \E a \in Addresses :
         /\ address' = Some(a)
         /\ met' = Some(conditions_met(a, CurrentEnv))
    /\ pc' = "evaluated"
    /\ UNCHANGED <<options, built, salt, iterations, oracle, derivations, output>>

Next == Configure \/ DrawSalt \/ Iterate

NextMatch == Configure \/ Evaluate

Spec == Init /\ [][Next]_vars

SpecMatch == InitMatch /\ [][NextMatch]_vars

----------------------------------------------------------------------------
(* What the conditions mean, stated on the address itself *)

\* the 2 * AddressBytes hex characters after the "0x" prefix
HexPart(a) == SubSeq(a, 3, Len(a))

FirstBytesZero(a, n) ==
    \A i \in 1..AddressBytes : i <= n => to_canonical_address(a)[i] = 0

LastBytesZero(a, n) ==
    \A i \in 1..AddressBytes : i > AddressBytes - n => to_canonical_address(a)[i] = 0

SameChar(c, d, cs) == IF cs THEN c = d ELSE LowerChar(c) = LowerChar(d)

HasPrefix(a, p, cs) ==
    /\ Len(p) <= Len(HexPart(a))
    /\ \A i \in 1..Len(p) : SameChar(HexPart(a)[i], p[i], cs)

HasSuffix(a, p, cs) ==
    /\ Len(p) <= Len(HexPart(a))
    /\ \A i \in 1..Len(p) : SameChar(HexPart(a)[Len(HexPart(a)) - Len(p) + i], p[i], cs)

\* a satisfies every option that is set
SatisfiesAll(a) ==
    /\ IsSome(leading_zeros)  => FirstBytesZero(a, Val(leading_zeros))
    /\ IsSome(starts_with)    => HasPrefix(a, Val(starts_with), case_sensitive)
    /\ IsSome(trailing_zeros) => LastBytesZero(a, Val(trailing_zeros))
    /\ IsSome(ends_with)      => HasSuffix(a, Val(ends_with), case_sensitive)

\* conditions_met as mine builds it when only the given options are passed
AcceptsWith(a, lz, sw, tz, ew) ==
    LET b == BuildConditions(lz, sw, tz, ew)
    IN  conditions_met(a, Env(lz, sw, tz, ew, case_sensitive, b))

Terminal == pc \in {"found", "exhausted"}
Entered == pc \in {"searching", "found", "exhausted"}

----------------------------------------------------------------------------
(* Claims *)

\* C1: when leadingZeros and startsWith are both set (or trailingZeros and
\* endsWith), with a non-empty pattern, the command ends in a configuration
\* error: the search loop is never entered, no derivation call is made and
\* neither Found nor Exhausted is reported.
C1_ExclusivePairsRejected ==
    (\/ IsSome(leading_zeros) /\ TruthyStr(starts_with)
     \/ IsSome(trailing_zeros) /\ TruthyStr(ends_with))
    => /\ ~ Entered
       /\ derivations = 0

\* C2: for max_iterations = k >= 0 the loop makes at most k+1 derivation
\* calls, is in Found or Exhausted once k+1 calls are made, and makes no
\* call once terminal.
C2_Termination ==
    /\ [](max_iterations >= 0 =>
            /\ derivations <= max_iterations + 1
            /\ derivations = max_iterations + 1 => Terminal)
    /\ [][Terminal => derivations' = derivations]_vars

C2_Witness ==
    /\ pc = "exhausted"
    /\ leading_zeros = Some(1)
    /\ NumSet(leading_zeros, starts_with, trailing_zeros, ends_with) = 1
    /\ max_iterations = MaxIter
    /\ derivations = MaxIter + 1

\* C3: when Found is reported with address a and salt s, a is the address
\* compute_address returned for exactly the salt s, a satisfies every option
\* that is set, and s is the salt the loop holds, not one computed from a.
C3_FoundIsDerivedFromSalt ==
    pc = "found" =>
        LET o == Val(output)
        IN  /\ o.kind = "Found"
            /\ o.address = Val(address)
            /\ \E s \in DOMAIN oracle : Hex(s) = o.salt /\ oracle[s] = o.address
            /\ o.salt = Hex(Val(salt))
            /\ SatisfiesAll(o.address)

C3_Witness ==
    /\ pc = "found"
    /\ ends_with = Some(<<"a">>)
    /\ NumSet(leading_zeros, starts_with, trailing_zeros, ends_with) = 1
    /\ iterations >= 1
    /\ Val(salt) # NextSalt(Val(address))

\* C4: the predicate mine builds from the options (patterns non-empty) accepts
\* an address exactly when the predicate built from each set option alone
\* accepts it.
C4_Conjunction ==
    (pc = "evaluated" /\ starts_with # Some(<<>>) /\ ends_with # Some(<<>>)) =>
        Val(met) =
            /\ IsSome(leading_zeros)  => AcceptsWith(Val(address), leading_zeros, None, None, None)
            /\ IsSome(starts_with)    => AcceptsWith(Val(address), None, starts_with, None, None)
            /\ IsSome(trailing_zeros) => AcceptsWith(Val(address), None, None, trailing_zeros, None)
            /\ IsSome(ends_with)      => AcceptsWith(Val(address), None, None, None, ends_with)

\* C5: without case-sensitive matching, startsWith(p) alone (resp. endsWith(p))
\* accepts an address exactly when its leading (resp. trailing) len(p) hex
\* characters equal p ignoring letter case, for every non-empty hex pattern.
C5_CaseInsensitive ==
    (pc = "evaluated" /\ ~ case_sensitive
        /\ NumSet(leading_zeros, starts_with, trailing_zeros, ends_with) = 1)
    => /\ TruthyStr(starts_with) =>
            Val(met) = HasPrefix(Val(address), Val(starts_with), FALSE)
       /\ TruthyStr(ends_with) =>
            Val(met) = HasSuffix(Val(address), Val(ends_with), FALSE)

\* C6: an empty startsWith or endsWith pattern is rejected with a
\* configuration error: no condition is built from it and the search loop is
\* never entered.
C6_EmptyPatternRejected ==
    (starts_with = Some(<<>>) \/ ends_with = Some(<<>>))
    => /\ ~ Entered
       /\ built.conditions = <<>>
       /\ derivations = 0

\* C7: a non-hex pattern, a zero-count of 0 or less, and no option set at all
\* each end the command with an error, and whenever the command ends with an
\* error no derivation call has been made and no salt has been drawn.
ListedError ==
    \/ IsSome(starts_with) /\ ~ IsValidHex(Val(starts_with))
    \/ IsSome(ends_with) /\ ~ IsValidHex(Val(ends_with))
    \/ IsSome(leading_zeros) /\ Val(leading_zeros) < 1
    \/ IsSome(trailing_zeros) /\ Val(trailing_zeros) < 1
    \/ NumSet(leading_zeros, starts_with, trailing_zeros, ends_with) = 0

C7_ErrorsBeforeDerivation ==
    /\ (ListedError /\ pc # "start") => pc = "error"
    /\ pc = "error" =>
          /\ derivations = 0
          /\ salt = None
          /\ DOMAIN oracle = {}
          /\ IsSome(built.error)

C7_Witness ==
    /\ pc = "error"
    /\ starts_with = Some(<<"0", "z">>)
    /\ built.error = Some("BadOptionUsage: starts_with: Must be valid hex")
    /\ derivations = 0

\* C8: leadingZeros(n) alone, n >= 1, accepts an address exactly when its
\* first n bytes are all 0, trailingZeros(n) alone exactly when its last n
\* bytes are all 0; n above 8 is accepted with a warning and builds the same
\* condition as a smaller n.
C8_ZeroBytes ==
    NumSet(leading_zeros, starts_with, trailing_zeros, ends_with) = 1
    => /\ (IsSome(leading_zeros) /\ Val(leading_zeros) >= 1) =>
            /\ pc # "error"
            /\ pc # "start" =>
                 /\ built.conditions = <<"has_enough_leading_zeros">>
                 /\ built.warnings =
                      IF Val(leading_zeros) > 8 THEN <<"leading-zeros">> ELSE <<>>
            /\ pc = "evaluated" =>
                 Val(met) = FirstBytesZero(Val(address), Val(leading_zeros))
       /\ (IsSome(trailing_zeros) /\ Val(trailing_zeros) >= 1) =>
            /\ pc # "error"
            /\ pc # "start" =>
                 /\ built.conditions = <<"has_enough_trailing_zeros">>
                 /\ built.warnings =
                      IF Val(trailing_zeros) > 8 THEN <<"trailing-zeros">> ELSE <<>>
            /\ pc = "evaluated" =>
                 Val(met) = LastBytesZero(Val(address), Val(trailing_zeros))

C8_Witness ==
    /\ pc = "evaluated"
    /\ leading_zeros = Some(9)
    /\ NumSet(leading_zeros, starts_with, trailing_zeros, ends_with) = 1
    /\ built.warnings = <<"leading-zeros">>
    /\ met = Some(TRUE)

\* The last SaltBytes bytes and the first SaltBytes bytes of the canonical address
LowBytes(a) ==
    [i \in 1..SaltBytes |-> to_canonical_address(a)[AddressBytes - SaltBytes + i]]
HighBytes(a) ==
    [i \in 1..SaltBytes |-> to_canonical_address(a)[i]]

\* C9 as stated: in every Searching -> Searching step the next salt is the
\* last 11 bytes of the canonical address of the rejected candidate and the
\* counter increases by 1; no other step of the loop changes either.
C9_ReseedLowBytes ==
    [][pc = "searching" =>
         IF pc' = "searching"
         THEN /\ salt' = Some(LowBytes(Val(address')))
              /\ iterations' = iterations + 1
         ELSE /\ salt' = salt
              /\ iterations' = iterations]_vars

\* C9 amended: in every Searching -> Searching step the next salt is the
\* first 11 bytes of the canonical address of the rejected candidate and the
\* counter increases by 1; no other step of the loop changes either.
C9_ReseedHighBytes ==
    [][pc = "searching" =>
         IF pc' = "searching"
         THEN /\ met' = Some(FALSE)
              /\ iterations < max_iterations
              /\ salt' = Some(HighBytes(Val(address')))
              /\ iterations' = iterations + 1
         ELSE /\ salt' = salt
              /\ iterations' = iterations]_vars

C9_Witness ==
    /\ pc = "searching"
    /\ starts_with = Some(<<"0">>)
    /\ NumSet(leading_zeros, starts_with, trailing_zeros, ends_with) = 1
    /\ iterations >= 1
    /\ met = Some(FALSE)
    /\ salt = Some(HighBytes(Val(address)))
    /\ HighBytes(Val(address)) # LowBytes(Val(address))

\* C10: the counter equals the number of candidates rejected and reseeded so
\* far and, for max_iterations >= 0, never exceeds max_iterations; Found
\* reports the number of candidates rejected before the winning one and
\* Exhausted reports exactly max_iterations.
C10_Counter ==
    /\ max_iterations >= 0 => iterations <= max_iterations
    /\ pc = "searching" => iterations = derivations
    /\ pc = "found" =>
          /\ iterations = derivations - 1
          /\ Val(output).iterations = derivations - 1
    /\ (pc = "exhausted" /\ max_iterations >= 0) =>
          /\ iterations = derivations - 1
          /\ Val(output).iterations = max_iterations

C10_Witness ==
    /\ pc = "exhausted"
    /\ trailing_zeros = Some(1)
    /\ NumSet(leading_zeros, starts_with, trailing_zeros, ends_with) = 1
    /\ max_iterations >= 1
    /\ Val(output).iterations = max_iterations

====
